---- MODULE Spec2Model ----
(***************************************************************************)
(* POD Verifier: the chat workflow of src/src/App.tsx (React component     *)
(* App) together with the docket store of the Express server               *)
(* (src/unnamed/part_000).                                                 *)
(*                                                                         *)
(* Text is modelled as sequences of one-character strings so that          *)
(* toLowerCase, includes, trim and the /DKT-\d+/i match are computed.      *)
(* Every await of the code is a point where other events may run: an       *)
(* outstanding call is a record of the set calls that holds the values     *)
(* the suspended closure captured.                                         *)
(***************************************************************************)
EXTENDS Naturals, Sequences, FiniteSets, TLC

VARIABLES
    messages,         \* useState<Message[]>            App.tsx:44
    input,            \* useState('')                   App.tsx:51
    isTyping,         \* useState(false)                App.tsx:52
    currentDocket,    \* useState<Docket | null>(null)  App.tsx:53
    pendingPodImage,  \* useState<string | null>(null)  App.tsx:54
    dockets,          \* table dockets of logistics.db  part_000:13
    now,              \* CURRENT_TIMESTAMP of the database, a logical clock
    calls,            \* outstanding asynchronous calls with their closures
    cap,              \* the length of the message log the run admits
    evidenceDocket    \* history: id of the docket snapshot of the analyzePOD
                      \* call that set the current pendingPodImage

vars == <<messages, input, isTyping, currentDocket, pendingPodImage,
          dockets, now, calls, cap, evidenceDocket>>

----------------------------------------------------------------------------
(* Bounds *)

MaxMessages == 7         \* the log of Spec
MaxMessagesScoped == 9   \* the log of SpecScoped
MaxMessagesLive == 7     \* the log of SpecLive
MaxStoreCalls == 2       \* requests under way at the server in SpecStore
MaxStoreUpdates == 2     \* update requests served in SpecStore

----------------------------------------------------------------------------
(* Text *)

UpperCase == <<"A","B","C","D","E","F","G","H","I","J","K","L","M",
               "N","O","P","Q","R","S","T","U","V","W","X","Y","Z">>
LowerCase == <<"a","b","c","d","e","f","g","h","i","j","k","l","m",
               "n","o","p","q","r","s","t","u","v","w","x","y","z">>
Digits == {"0","1","2","3","4","5","6","7","8","9"}
WhiteSpace == {" ", "\t", "\n"}

MinOf(S) == CHOOSE x \in S : \A y \in S : x <= y
MaxOf(S) == CHOOSE x \in S : \A y \in S : x >= y

toLower == [c \in {UpperCase[k] : k \in 1..26} |->
               LowerCase[CHOOSE k \in 1..26 : UpperCase[k] = c]]
toUpper == [c \in {LowerCase[k] : k \in 1..26} |->
               UpperCase[CHOOSE k \in 1..26 : LowerCase[k] = c]]

lowerChar(c) == IF c \in DOMAIN toLower THEN toLower[c] ELSE c
upperChar(c) == IF c \in DOMAIN toUpper THEN toUpper[c] ELSE c

toLowerCase(s) == [i \in 1..Len(s) |-> lowerChar(s[i])]
toUpperCase(s) == [i \in 1..Len(s) |-> upperChar(s[i])]

\* String.prototype.includes
includes(s, sub) ==
    \E i \in 1..(Len(s) + 1) :
        /\ i + Len(sub) - 1 <= Len(s)
        /\ SubSeq(s, i, i + Len(sub) - 1) = sub

\* String.prototype.trim
trim(s) ==
    LET keep == {i \in 1..Len(s) : s[i] \notin WhiteSpace}
    IN  IF keep = {} THEN <<>> ELSE SubSeq(s, MinOf(keep), MaxOf(keep))

\* userMsg.match(/DKT-\d+/i): the leftmost match with its digits taken
\* greedily; <<>> stands for null (a match is never empty).
docketMatch(s) ==
    LET starts == {i \in 1..Len(s) :
                      /\ i + 4 <= Len(s)
                      /\ toLowerCase(SubSeq(s, i, i + 3)) = <<"d","k","t","-">>
                      /\ s[i + 4] \in Digits}
    IN  IF starts = {} THEN <<>>
        ELSE LET i == MinOf(starts)
                 j == MaxOf({k \in (i + 4)..Len(s) :
                                \A m \in (i + 4)..k : s[m] \in Digits})
             IN  SubSeq(s, i, j)

----------------------------------------------------------------------------
(* Values *)

Null == "null"            \* null of pendingPodImage, Message.image
NoStatus == "none"        \* Message.status undefined

DKT1001 == <<"D","K","T","-","1","0","0","1">>
DKT1002 == <<"D","K","T","-","1","0","0","2">>
DKT1003 == <<"D","K","T","-","1","0","0","3">>

\* null of currentDocket: a record of the Docket shape with an empty id
NoDocket ==
    [id |-> <<>>, customer_name |-> "", delivery_address |-> "",
     status |-> "", pod_verified |-> 0, updated_at |-> 0]

SeedRow(id, name, address) ==
    [id |-> id, customer_name |-> name, delivery_address |-> address,
     status |-> "Pending", pod_verified |-> 0, updated_at |-> 0]

SeedIds == {DKT1001, DKT1002, DKT1003}

SeedData ==
    [i \in SeedIds |->
        IF i = DKT1001 THEN SeedRow(i, "John Doe", "123 Maple St, Springfield")
        ELSE IF i = DKT1002 THEN SeedRow(i, "Jane Smith", "456 Oak Ave, Metropolis")
        ELSE SeedRow(i, "Acme Corp", "789 Industrial Way, Gotham")]

\* What the user may type into the text box.
Utterances ==
    { <<"u","p","d","a","t","e">>,
      <<"U","p","d","a","t","e"," ","d","k","t","-","1","0","0","2">>,
      <<" ","d","k","t","-","1","0","0","1","!"," ">>,
      <<"D","K","T","-","9">>,
      <<"h","i">> }

\* The sample docket buttons (App.tsx:352) and those the user clicks.
SampleIds == {DKT1001, DKT1002, DKT1003}
Clicked == {DKT1002}

\* Files the user may pick, as the data URL the FileReader yields.
Images == {"img1", "img2"}

\* What generateContent may yield: result.text, or a rejected promise.
Throws == <<"#throws">>
AnalyzeFallback ==       \* "I couldn't analyze the image properly."
    <<"I"," ","c","o","u","l","d","n","'","t"," ","a","n","a","l","y","z","e",
      " ","t","h","e"," ","i","m","a","g","e"," ","p","r","o","p","e","r","l",
      "y",".">>
AcceptanceMarker == <<"p","o","d"," ","i","s"," ","g","o","o","d">>
UpdateCue == <<"u","p","d","a","t","e">>
PleaseUpdateCue == <<"p","l","e","a","s","e"," ","u","p","d","a","t","e">>
PleaseUpdate == <<"P","l","e","a","s","e"," ","u","p","d","a","t","e">>
GoodVerdict == <<"T","h","i","s"," ","P","O","D"," ","i","s"," ","g","o","o","d">>
BadVerdict == <<"P","O","D"," ","i","s"," ","b","a","d">>
VerifierResults == {GoodVerdict, BadVerdict, <<>>, Throws}
AssistantResults == {<<"o","k">>, <<>>, Throws}

----------------------------------------------------------------------------
(* Messages *)

Content(tpl, text, docket) == [tpl |-> tpl, text |-> text, docket |-> docket]
Text(t) == Content("text", t, NoDocket)
Fixed(tpl) == Content(tpl, <<>>, NoDocket)

\* Math.random().toString(36).substring(7): modelled as an id no earlier
\* message has (the log only grows, so its length numbers the messages).
newId(msgs) == Len(msgs) + 1

addMessage(msgs, role, content, image, status) ==
    Append(msgs, [id |-> newId(msgs), role |-> role, content |-> content,
                  image |-> image, status |-> status])

\* mutant of updateMessageStatus: the latest loading message is rewritten,
\* whatever its id
updateLatestLoading(msgs, id, status, content) ==
    LET loading == {i \in 1..Len(msgs) : msgs[i].status = "loading"}
    IN  [i \in 1..Len(msgs) |->
            IF loading # {} /\ i = MaxOf(loading)
            THEN [msgs[i] EXCEPT !.status = status, !.content = content]
            ELSE msgs[i]]

\* mutant of updateMessageStatus: the last message of the log is
\* rewritten, whatever its id and status
updateLastMessage(msgs, id, status, content) ==
    [i \in 1..Len(msgs) |->
        IF i = Len(msgs)
        THEN [msgs[i] EXCEPT !.status = status, !.content = content]
        ELSE msgs[i]]

updateMessageStatus(msgs, id, status, content) ==
    [i \in 1..Len(msgs) |->
        IF msgs[i].id = id
        THEN [msgs[i] EXCEPT !.status = status, !.content = content]
        ELSE msgs[i]]

\* `Sorry, I couldn't find docket **${docketId}**. Try DKT-1001, DKT-1002,
\* or DKT-1003.` (App.tsx:200): the text of a message Content("notFound",
\* docketId, NoDocket)
notFoundText(docketId) ==
    <<"S","o","r","r","y",","," ","I"," ","c","o","u","l","d","n","'",
      "t"," ","f","i","n","d"," ","d","o","c","k","e","t"," ","*","*">>
    \o docketId \o
    <<"*","*","."," ","T","r","y"," ","D","K","T","-","1","0","0","1",
      ","," ","D","K","T","-","1","0","0","2",","," ","o","r"," ","D",
      "K","T","-","1","0","0","3",".">>

----------------------------------------------------------------------------
(* Outstanding calls *)

\* A response: res.ok and the parsed body (a Docket row, or none).
Response(ok, data) == [ok |-> ok, data |-> data]
NoResponse == Response(FALSE, NoDocket)

\* The JSON body of POST /api/dockets/:id/update.
Body(status, verified) == [status |-> status, pod_verified |-> verified]
NoBody == Body("", FALSE)

\* kind: "fetch" | "update" | "reader" | "verify" | "assistant"
\* phase: "sent" (request under way), "resp" (the server has answered)
\* docket, img, msgId: what the suspended closure captured
\* reqId, body: the request
Call(cid, kind, docket, reqId, body, img, msgId) ==
    [cid |-> cid, kind |-> kind, phase |-> "sent", docket |-> docket,
     reqId |-> reqId, body |-> body, img |-> img, msgId |-> msgId,
     res |-> NoResponse]

Replace(c, d) == (calls \ {c}) \cup {d}

\* a name for a new call that no outstanding call has
freshCid == MinOf({n \in 1..(Cardinality(calls) + 1) :
                     \A c \in calls : c.cid # n})

\* The messages the outstanding calls will still append, and whether the
\* log has room for n more besides them.
owed ==
    2 * Cardinality({c \in calls : c.kind = "reader"})
      + Cardinality({c \in calls : c.kind \in {"fetch", "update", "assistant"}})
room(n) == Len(messages) + owed + n <= cap

----------------------------------------------------------------------------
InitWith(n) ==
    /\ messages = <<[id |-> 1, role |-> "assistant", content |-> Fixed("greeting"),
                     image |-> Null, status |-> NoStatus]>>
    /\ input = <<>>
    /\ isTyping = FALSE
    /\ currentDocket = NoDocket
    /\ pendingPodImage = Null
    /\ dockets = SeedData
    /\ now = 0
    /\ calls = {}
    /\ cap = n
    /\ evidenceDocket = <<>>

Init == InitWith(MaxMessages)

----------------------------------------------------------------------------
(* handleSend, App.tsx:157-222 *)

\* mutant of intent: the docket search is tried before the update cue
intentLookupFirst(userMsg) ==
    IF docketMatch(userMsg) # <<>> THEN "DocketLookup"
    ELSE IF includes(toLowerCase(userMsg), UpdateCue) THEN "RequestCommit"
    ELSE "Freeform"

\* The branch handleSend takes for a trimmed, non-empty utterance
\* (App.tsx:166, 189-190, 206).
intent(userMsg) ==
    IF \/ includes(toLowerCase(userMsg), UpdateCue)
       \/ includes(toLowerCase(userMsg), PleaseUpdateCue)
    THEN "RequestCommit"
    ELSE IF docketMatch(userMsg) # <<>> THEN "DocketLookup"
    ELSE "Freeform"

\* mutant of canCommit: the pending image is not asked for
canCommitWithoutEvidence == currentDocket # NoDocket

\* Whether the update branch calls the store (App.tsx:167).
canCommit == currentDocket # NoDocket /\ pendingPodImage # Null

\* handleSend (App.tsx:157-222) up to its first await. box is the text
\* box as the render handleSend closes over shows it; early is what the box
\* holds when handleSend returns at line 159.
handleSend(box, early) ==
    LET userMsg == trim(box)
        m1 == addMessage(messages, "user", Text(userMsg), Null, NoStatus)
        cid == freshCid
    IN  IF userMsg = <<>>
        THEN /\ input' = early
             /\ UNCHANGED <<messages, isTyping, currentDocket, pendingPodImage,
                            dockets, now, calls, cap, evidenceDocket>>
        ELSE /\ room(2)
             /\ input' = <<>>
             /\ UNCHANGED <<currentDocket, pendingPodImage, dockets, now, cap,
                            evidenceDocket>>
             /\ CASE intent(userMsg) = "RequestCommit" ->
                       IF canCommit
                       THEN /\ isTyping' = TRUE
                            /\ messages' = m1
                            /\ calls' = calls \cup
                                 {Call(cid, "update", currentDocket, currentDocket.id,
                                       Body("Delivered", TRUE), Null, 0)}
                       ELSE /\ messages' = addMessage(m1, "assistant",
                                 Fixed(IF currentDocket = NoDocket
                                       THEN "needDocket" ELSE "needPod"),
                                 Null, NoStatus)
                            /\ UNCHANGED <<isTyping, calls>>
                  [] intent(userMsg) = "DocketLookup" ->
                       /\ isTyping' = TRUE
                       /\ messages' = m1
                       /\ calls' = calls \cup
                            {Call(cid, "fetch", NoDocket,
                                  toUpperCase(docketMatch(userMsg)), NoBody, Null, 0)}
                  [] OTHER ->
                       /\ isTyping' = TRUE
                       /\ messages' = m1
                       /\ calls' = calls \cup
                            {Call(cid, "assistant", NoDocket, <<>>, NoBody, Null, 0)}

\* The text box when an event reads it: as the last handler left it, or as
\* the user has edited it since (onChange, App.tsx:393, which writes input
\* and nothing else; only handleSend and the submit button read input, so
\* an edit is taken together with the event that reads it).
Box(typable) == {input} \cup typable

\* onSubmit of the form; the submit button is disabled while the box is
\* blank or isTyping (App.tsx:381, 406-408)
SubmitForm(box) ==
    /\ trim(box) # <<>>
    /\ ~isTyping
    /\ handleSend(box, box)

\* a sample docket button: setInput(id); handleSend() (App.tsx:351-355)
ClickSampleDocket(id, box) ==
    /\ currentDocket = NoDocket
    /\ handleSend(box, id)

\* the Confirm Update button: setInput("Please update"); handleSend()
\* (App.tsx:369-371)
ClickConfirmUpdate(box) ==
    /\ currentDocket # NoDocket
    /\ pendingPodImage # Null
    /\ handleSend(box, PleaseUpdate)

\* the reset button of the header (App.tsx:255-262)
ClickReset ==
    /\ currentDocket # NoDocket
    /\ currentDocket' = NoDocket
    /\ UNCHANGED <<messages, input, isTyping, pendingPodImage, dockets, now,
                   calls, cap, evidenceDocket>>

----------------------------------------------------------------------------
(* handleFileUpload and analyzePOD, App.tsx:104-155, 224-240 *)

\* mutant of HandleFileUpload: the file is read whether or not a docket is
\* active
HandleFileUploadUnchecked(f) ==
    /\ room(2)
    /\ calls' = calls \cup
         {Call(freshCid, "reader", currentDocket, <<>>, NoBody, f, 0)}
    /\ UNCHANGED <<messages, input, isTyping, currentDocket, pendingPodImage,
                   dockets, now, cap, evidenceDocket>>

\* onChange of the file input with a file chosen
HandleFileUpload(f) ==
    /\ IF currentDocket = NoDocket
       THEN /\ room(1)
            /\ messages' = addMessage(messages, "assistant", Fixed("searchFirst"),
                                      Null, NoStatus)
            /\ UNCHANGED calls
       ELSE /\ room(2)
            /\ calls' = calls \cup
                 {Call(freshCid, "reader", currentDocket, <<>>, NoBody, f, 0)}
            /\ UNCHANGED messages
    /\ UNCHANGED <<input, isTyping, currentDocket, pendingPodImage, dockets,
                   now, cap, evidenceDocket>>

\* reader.onloadend: the user message with the image, then analyzePOD up
\* to its await (App.tsx:234-238, 105-132). read: the file was read;
\* otherwise reader.result is null.
ReaderLoadEnd(c, read) ==
    /\ c \in calls
    /\ c.kind = "reader"
    /\ LET base64 == IF read THEN c.img ELSE Null
           m1 == addMessage(messages, "user", Fixed("uploaded"), base64, NoStatus)
           msgId == newId(m1)
           m2 == addMessage(m1, "assistant", Fixed("analyzing"), Null, "loading")
       IN  IF read
           THEN /\ messages' = m2
                /\ calls' = Replace(c, [c EXCEPT !.kind = "verify",
                                                 !.msgId = msgId])
                /\ isTyping' = TRUE
           ELSE \* base64Image.split throws inside the try (App.tsx:137)
                /\ messages' = updateMessageStatus(m2, msgId, "error",
                                                   Fixed("analyzeError"))
                /\ calls' = calls \ {c}
                /\ isTyping' = FALSE
    /\ UNCHANGED <<input, currentDocket, pendingPodImage, dockets, now,
                   cap, evidenceDocket>>

\* mutant of VerifierReturns: a failed verifier call is dropped without a
\* word
VerifierReturnsDropsFailure(c, r) ==
    /\ c \in calls
    /\ c.kind = "verify"
    /\ calls' = calls \ {c}
    /\ isTyping' = FALSE
    /\ IF r = Throws
       THEN UNCHANGED <<messages, pendingPodImage, evidenceDocket>>
       ELSE LET responseText == IF r = <<>> THEN AnalyzeFallback ELSE r
            IN  /\ messages' = updateMessageStatus(messages, c.msgId, "success",
                                                   Text(responseText))
                /\ IF includes(toLowerCase(responseText), AcceptanceMarker)
                   THEN /\ pendingPodImage' = c.img
                        /\ evidenceDocket' = c.docket.id
                   ELSE UNCHANGED <<pendingPodImage, evidenceDocket>>
    /\ UNCHANGED <<input, currentDocket, dockets, now, cap>>

\* mutant of accepted: the marker is looked for as the verdict spells it
acceptedCaseSensitive(responseText) ==
    includes(responseText, AcceptanceMarker)

\* responseText.toLowerCase().includes("pod is good") (App.tsx:145)
accepted(responseText) ==
    includes(toLowerCase(responseText), AcceptanceMarker)

\* the continuation of analyzePOD after generateContent settles with r
\* (App.tsx:142-154)
VerifierReturns(c, r) ==
    /\ c \in calls
    /\ c.kind = "verify"
    /\ calls' = calls \ {c}
    /\ isTyping' = FALSE
    /\ IF r = Throws
       THEN /\ messages' = updateMessageStatus(messages, c.msgId, "error",
                                               Fixed("analyzeError"))
            /\ UNCHANGED <<pendingPodImage, evidenceDocket>>
       ELSE LET responseText == IF r = <<>> THEN AnalyzeFallback ELSE r
            IN  /\ messages' = updateMessageStatus(messages, c.msgId, "success",
                                                   Text(responseText))
                /\ IF accepted(responseText)
                   THEN /\ pendingPodImage' = c.img
                        /\ evidenceDocket' = c.docket.id
                   ELSE UNCHANGED <<pendingPodImage, evidenceDocket>>
    /\ UNCHANGED <<input, currentDocket, dockets, now, cap>>

----------------------------------------------------------------------------
(* The server, part_000:40-60, and the network *)

\* GET /api/dockets/:id
ServerGet(c) ==
    /\ c \in calls
    /\ c.kind = "fetch"
    /\ c.phase = "sent"
    /\ calls' = Replace(c, [c EXCEPT !.phase = "resp",
                    !.res = IF c.reqId \in DOMAIN dockets
                            THEN Response(TRUE, dockets[c.reqId])
                            ELSE NoResponse])
    /\ UNCHANGED <<messages, input, isTyping, currentDocket, pendingPodImage,
                   dockets, now, cap, evidenceDocket>>

\* mutant of dbUpdate: the statement has no WHERE clause
dbUpdateAllRows(tbl, id, status, verified, t) ==
    [i \in DOMAIN tbl |->
        [tbl[i] EXCEPT !.status = status,
                       !.pod_verified = IF verified THEN 1 ELSE 0,
                       !.updated_at = t]]

\* UPDATE dockets SET status = ?, pod_verified = ?, updated_at =
\* CURRENT_TIMESTAMP WHERE id = ?
dbUpdate(tbl, id, status, verified, t) ==
    [i \in DOMAIN tbl |->
        IF i = id
        THEN [tbl[i] EXCEPT !.status = status,
                            !.pod_verified = IF verified THEN 1 ELSE 0,
                            !.updated_at = t]
        ELSE tbl[i]]

\* POST /api/dockets/:id/update; every update reads a later timestamp
ServerUpdate(c) ==
    /\ c \in calls
    /\ c.kind = "update"
    /\ c.phase = "sent"
    /\ now' = now + 1
    /\ dockets' = dbUpdate(dockets, c.reqId, c.body.status,
                           c.body.pod_verified, now + 1)
    /\ calls' = Replace(c, [c EXCEPT !.phase = "resp",
                    !.res = Response(c.reqId \in DOMAIN dockets, NoDocket)])
    /\ UNCHANGED <<messages, input, isTyping, currentDocket, pendingPodImage,
                   cap, evidenceDocket>>

----------------------------------------------------------------------------
(* Continuations of handleSend *)

\* mutant of FetchDocketReturns: a lookup that finds nothing clears the
\* active docket
FetchDocketReturnsClearsOnMiss(c, rejects) ==
    /\ c \in calls
    /\ c.kind = "fetch"
    /\ rejects \/ c.phase = "resp"
    /\ calls' = calls \ {c}
    /\ isTyping' = FALSE
    /\ IF ~rejects /\ c.res.ok
       THEN /\ currentDocket' = c.res.data
            /\ messages' = addMessage(messages, "assistant",
                                      Content("found", c.res.data.id, c.res.data),
                                      Null, NoStatus)
       ELSE /\ messages' = addMessage(messages, "assistant",
                                      Content("notFound", c.reqId, NoDocket),
                                      Null, NoStatus)
            /\ currentDocket' = NoDocket
    /\ UNCHANGED <<input, pendingPodImage, dockets, now, cap, evidenceDocket>>

\* fetchDocket after its await and the docket search branch after it
\* (App.tsx:78-87, 194-203). rejects: the fetch promise rejects, the
\* request or its response being lost.
FetchDocketReturns(c, rejects) ==
    /\ c \in calls
    /\ c.kind = "fetch"
    /\ rejects \/ c.phase = "resp"
    /\ calls' = calls \ {c}
    /\ isTyping' = FALSE
    /\ IF ~rejects /\ c.res.ok
       THEN /\ currentDocket' = c.res.data
            /\ messages' = addMessage(messages, "assistant",
                                      Content("found", c.res.data.id, c.res.data),
                                      Null, NoStatus)
       ELSE /\ messages' = addMessage(messages, "assistant",
                                      Content("notFound", c.reqId, NoDocket),
                                      Null, NoStatus)
            /\ UNCHANGED currentDocket
    /\ UNCHANGED <<input, pendingPodImage, dockets, now, cap, evidenceDocket>>

\* mutant of UpdateReturns: the pending image is dropped when the update
\* fails, too
UpdateReturnsDropsEvidence(c, rejects) ==
    /\ c \in calls
    /\ c.kind = "update"
    /\ rejects \/ c.phase = "resp"
    /\ calls' = calls \ {c}
    /\ isTyping' = FALSE
    /\ messages' = addMessage(messages, "assistant",
                              IF ~rejects /\ c.res.ok
                              THEN Content("updated", c.docket.id, NoDocket)
                              ELSE Fixed("updateFailed"),
                              Null, NoStatus)
    /\ pendingPodImage' = Null
    /\ evidenceDocket' = <<>>
    /\ UNCHANGED <<input, currentDocket, dockets, now, cap>>

\* mutant of UpdateReturns: the pending image is kept after a successful
\* update
UpdateReturnsKeepsEvidence(c, rejects) ==
    /\ c \in calls
    /\ c.kind = "update"
    /\ rejects \/ c.phase = "resp"
    /\ calls' = calls \ {c}
    /\ isTyping' = FALSE
    /\ messages' = addMessage(messages, "assistant",
                              IF ~rejects /\ c.res.ok
                              THEN Content("updated", c.docket.id, NoDocket)
                              ELSE Fixed("updateFailed"),
                              Null, NoStatus)
    /\ UNCHANGED <<input, currentDocket, pendingPodImage, dockets, now, cap,
                   evidenceDocket>>

\* updateDocketStatus after its await and the update branch after it
\* (App.tsx:97-100, 170-179)
UpdateReturns(c, rejects) ==
    /\ c \in calls
    /\ c.kind = "update"
    /\ rejects \/ c.phase = "resp"
    /\ calls' = calls \ {c}
    /\ isTyping' = FALSE
    /\ IF ~rejects /\ c.res.ok
       THEN /\ messages' = addMessage(messages, "assistant",
                                      Content("updated", c.docket.id, NoDocket),
                                      Null, NoStatus)
            /\ pendingPodImage' = Null
            /\ evidenceDocket' = <<>>
       ELSE /\ messages' = addMessage(messages, "assistant", Fixed("updateFailed"),
                                      Null, NoStatus)
            /\ UNCHANGED <<pendingPodImage, evidenceDocket>>
    /\ UNCHANGED <<input, currentDocket, dockets, now, cap>>

\* mutant of AssistantReturns: a failed assistant call ends the work on
\* the active docket
AssistantReturnsResetsOnFailure(c, r) ==
    /\ c \in calls
    /\ c.kind = "assistant"
    /\ calls' = calls \ {c}
    /\ isTyping' = FALSE
    /\ messages' = addMessage(messages, "assistant",
                              IF r = Throws THEN Fixed("assistantError")
                              ELSE IF r = <<>> THEN Fixed("notSure")
                              ELSE Text(r),
                              Null, NoStatus)
    /\ currentDocket' = IF r = Throws THEN NoDocket ELSE currentDocket
    /\ UNCHANGED <<input, pendingPodImage, dockets, now, cap, evidenceDocket>>

\* the default branch after generateContent settles with r (App.tsx:216-221)
AssistantReturns(c, r) ==
    /\ c \in calls
    /\ c.kind = "assistant"
    /\ calls' = calls \ {c}
    /\ isTyping' = FALSE
    /\ messages' = addMessage(messages, "assistant",
                              IF r = Throws THEN Fixed("assistantError")
                              ELSE IF r = <<>> THEN Fixed("notSure")
                              ELSE Text(r),
                              Null, NoStatus)
    /\ UNCHANGED <<input, currentDocket, pendingPodImage, dockets, now,
                   cap, evidenceDocket>>

----------------------------------------------------------------------------
\* The calls that settle, whoever started them.
Settle ==
    \/ \E c \in calls : \E read \in BOOLEAN : ReaderLoadEnd(c, read)
    \/ \E c \in calls : \E r \in VerifierResults : VerifierReturns(c, r)
    \/ \E c \in calls : ServerGet(c)
    \/ \E c \in calls : ServerUpdate(c)
    \/ \E c \in calls : \E rejects \in BOOLEAN : FetchDocketReturns(c, rejects)
    \/ \E c \in calls : \E rejects \in BOOLEAN : UpdateReturns(c, rejects)

Next ==
    \/ \E box \in Box(Utterances) : SubmitForm(box)
    \/ \E id \in Clicked : \E box \in Box(Utterances) : ClickSampleDocket(id, box)
    \/ \E box \in Box(Utterances) : ClickConfirmUpdate(box)
    \/ ClickReset
    \/ \E f \in Images : HandleFileUpload(f)
    \/ \E c \in calls : \E r \in AssistantResults : AssistantReturns(c, r)
    \/ Settle

Spec == Init /\ [][Next]_vars

\* The same program with a longer log and a user who types lookups and
\* updates only and clicks no suggestion button.
UtterancesScoped ==
    { <<"u","p","d","a","t","e">>,
      <<" ","d","k","t","-","1","0","0","1","!"," ">>,
      <<"d","k","t","-","1","0","0","2">> }

InitScoped == InitWith(MaxMessagesScoped)

NextScoped ==
    \/ \E box \in Box(UtterancesScoped) : SubmitForm(box)
    \/ ClickReset
    \/ \E f \in {"img1"} : HandleFileUpload(f)
    \/ Settle

SpecScoped == InitScoped /\ [][NextScoped]_vars

\* The program with a user who looks dockets up, uploads images and
\* resets, and with every outstanding generateContent call of analyzePOD
\* settling in the end: its promise resolves or rejects.
UtterancesLive ==
    { <<" ","d","k","t","-","1","0","0","1","!"," ">> }

InitLive == InitWith(MaxMessagesLive)

VerifierSettles ==
    \E c \in calls : \E r \in VerifierResults : VerifierReturns(c, r)

NextLive ==
    \/ \E box \in Box(UtterancesLive) : SubmitForm(box)
    \/ ClickReset
    \/ \E f \in {"img1"} : HandleFileUpload(f)
    \/ \E c \in calls : \E read \in BOOLEAN : ReaderLoadEnd(c, read)
    \/ VerifierSettles
    \/ \E c \in calls : ServerGet(c)
    \/ \E c \in calls : \E rejects \in BOOLEAN : FetchDocketReturns(c, rejects)

SpecLive == InitLive /\ [][NextLive]_vars /\ WF_vars(VerifierSettles)

\* The server alone, answering the requests of any HTTP client: the routes
\* take the id from the path and status and pod_verified from the body,
\* whatever they are (part_000:40-41, 49-50).
StoreIds == {DKT1001, <<"D","K","T","-","9">>}
StoreStatuses == {"Delivered", "Returned"}

InitStore == InitWith(1)

\* a GET /api/dockets/:id arrives
StoreGetRequest(id) ==
    /\ Cardinality(calls) < MaxStoreCalls
    /\ calls' = calls \cup
         {Call(freshCid, "fetch", NoDocket, id, NoBody, Null, 0)}
    /\ UNCHANGED <<messages, input, isTyping, currentDocket, pendingPodImage,
                   dockets, now, cap, evidenceDocket>>

\* a POST /api/dockets/:id/update arrives
StoreUpdateRequest(id, status, verified) ==
    /\ Cardinality(calls) < MaxStoreCalls
    /\ now + Cardinality({c \in calls : c.kind = "update" /\ c.phase = "sent"})
          < MaxStoreUpdates
    /\ calls' = calls \cup
         {Call(freshCid, "update", NoDocket, id, Body(status, verified), Null, 0)}
    /\ UNCHANGED <<messages, input, isTyping, currentDocket, pendingPodImage,
                   dockets, now, cap, evidenceDocket>>

\* the client has its response
StoreResponseTaken(c) ==
    /\ c \in calls
    /\ c.phase = "resp"
    /\ calls' = calls \ {c}
    /\ UNCHANGED <<messages, input, isTyping, currentDocket, pendingPodImage,
                   dockets, now, cap, evidenceDocket>>

NextStore ==
    \/ \E id \in StoreIds : StoreGetRequest(id)
    \/ \E id \in StoreIds : \E status \in StoreStatuses :
          \E verified \in BOOLEAN : StoreUpdateRequest(id, status, verified)
    \/ \E c \in calls : ServerGet(c)
    \/ \E c \in calls : ServerUpdate(c)
    \/ \E c \in calls : StoreResponseTaken(c)

SpecStore == InitStore /\ [][NextStore]_vars

----------------------------------------------------------------------------
(* Vocabulary of the claims *)

\* A step in which handleSend takes an utterance: it appends the user's
\* message, whose content is the trimmed utterance (App.tsx:161-163).
SendStep ==
    /\ Len(messages') > Len(messages)
    /\ messages'[Len(messages) + 1].role = "user"
    /\ messages'[Len(messages) + 1].content.tpl = "text"
Sent == messages'[Len(messages) + 1].content.text

HasUpdateCue(u) == includes(toLowerCase(u), UpdateCue)
HasDocketToken(u) == docketMatch(u) # <<>>

LastMessage == messages[Len(messages)]

\* the calls a step starts
Started == {c \in calls' : c.phase = "sent" /\ \A d \in calls : d.cid # c.cid}

----------------------------------------------------------------------------
(* Claims *)

\* C1: in every reachable state pending_evidence (pendingPodImage) is not
\* non-empty while active_docket (currentDocket) is empty.
C1_EvidenceNeedsDocket ==
    pendingPodImage # Null => currentDocket # NoDocket

\* C2: whenever the engine issues Docket Store update(id, 'Delivered',
\* true), the pending evidence at that moment was accepted by an analyzePOD
\* call whose docket snapshot had that same id.
C2_CommitUsesEvidenceOfSameDocket ==
    [][\A c \in Started : c.kind = "update" => c.reqId = evidenceDocket]_vars

\* C3: a DocketLookup that finds the docket, from any state, leaves
\* active_docket the record the store returned and pending_evidence empty.
C3_LookupFoundClearsEvidence ==
    [][\A c \in calls :
          FetchDocketReturns(c, FALSE) /\ c.res.ok
          => currentDocket' = c.res.data /\ pendingPodImage' = Null]_vars

\* C4: immediately after the reset action both active_docket and
\* pending_evidence are empty.
C4_ResetDiscardsEvidence ==
    [][ClickReset => currentDocket' = NoDocket /\ pendingPodImage' = Null]_vars

\* C5: a commit from EvidencePending whose store update succeeds: update
\* was called with (D.id, 'Delivered', true) for the active docket D, the
\* commit leaves active_docket as it is, pending_evidence is cleared, the
\* store record of D is Delivered and verified, and one success message
\* naming D.id is appended.
C5_CommitIssued ==
    \A c \in Started :
        c.kind = "update"
        => /\ c.docket = currentDocket
           /\ c.docket # NoDocket
           /\ pendingPodImage # Null
           /\ c.reqId = c.docket.id
           /\ c.body = Body("Delivered", TRUE)
           /\ currentDocket' = currentDocket

C5_CommitSucceeded ==
    \A c \in calls :
        UpdateReturns(c, FALSE) /\ c.res.ok
        => /\ c.reqId = c.docket.id
           /\ c.body = Body("Delivered", TRUE)
           /\ currentDocket' = currentDocket
           /\ pendingPodImage' = Null
           /\ dockets'[c.docket.id].status = "Delivered"
           /\ dockets'[c.docket.id].pod_verified = 1
           /\ messages' = Append(messages,
                  [id |-> Len(messages) + 1, role |-> "assistant",
                   content |-> Content("updated", c.docket.id, NoDocket),
                   image |-> Null, status |-> NoStatus])

C5_CommitOnStoreSuccess ==
    [][C5_CommitIssued /\ C5_CommitSucceeded]_vars

C5_Witness ==
    /\ LastMessage.content.tpl = "updated"
    /\ currentDocket # NoDocket
    /\ LastMessage.content.text = currentDocket.id
    /\ pendingPodImage = Null
    /\ dockets[currentDocket.id].status = "Delivered"

\* C6: Docket Store update is called only when a RequestCommit is handled
\* with active_docket and pending_evidence both non-empty; a RequestCommit
\* without a docket or without pending evidence calls nothing, leaves
\* active_docket, pending_evidence and the store unchanged and appends one
\* hint message: 'provide a docket number first' without a docket, 'upload
\* the POD first' with a docket and no evidence.
C6_UpdateOnlyOnCommit ==
    \A c \in Started :
        c.kind = "update"
        => /\ currentDocket # NoDocket
           /\ pendingPodImage # Null
           /\ SendStep
           /\ HasUpdateCue(Sent)

C6_RefusedCommit ==
    /\ SendStep
    /\ HasUpdateCue(Sent)
    /\ currentDocket = NoDocket \/ pendingPodImage = Null
    => /\ calls' = calls
       /\ dockets' = dockets
       /\ currentDocket' = currentDocket
       /\ pendingPodImage' = pendingPodImage
       /\ Len(messages') = Len(messages) + 2
       /\ SubSeq(messages', 1, Len(messages)) = messages
       /\ messages'[Len(messages) + 2] =
              [id |-> Len(messages) + 2, role |-> "assistant",
               content |-> Fixed(IF currentDocket = NoDocket
                                 THEN "needDocket" ELSE "needPod"),
               image |-> Null, status |-> NoStatus]

C6_CommitNeedsDocketAndEvidence ==
    [][C6_UpdateOnlyOnCommit /\ C6_RefusedCommit]_vars

C6_Witness ==
    /\ LastMessage.content.tpl = "needPod"
    /\ currentDocket # NoDocket
    /\ \E i \in 1..Len(messages) : messages[i].content.tpl = "needDocket"

\* C7: a loading message created by an analyzePOD call is resolved exactly
\* once, by the completion of that call and of no other, whatever the order
\* in which analyses complete and whether or not the active docket was
\* reset meanwhile: a loading message belongs to exactly one outstanding
\* analysis, only the completion of that analysis changes it, it is then
\* success or error, and a resolved message is not changed again.
C7_LoadingHasItsCall ==
    /\ \A i \in 1..Len(messages) :
          messages[i].status = "loading"
          => Cardinality({c \in calls : c.kind = "verify"
                                        /\ c.msgId = messages[i].id}) = 1
    /\ \A c \in calls :
          c.kind = "verify"
          => Cardinality({i \in 1..Len(messages) :
                             messages[i].id = c.msgId}) = 1
             /\ \A i \in 1..Len(messages) :
                   messages[i].id = c.msgId => messages[i].status = "loading"

C7_ResolvedByItsCall ==
    \A i \in 1..Len(messages) :
        /\ Len(messages') >= Len(messages)
        /\ messages'[i] # messages[i]
           => /\ messages[i].status = "loading"
              /\ messages'[i].status \in {"success", "error"}
              /\ \E c \in calls :
                    /\ c.kind = "verify"
                    /\ c.msgId = messages[i].id
                    /\ c \notin calls'
                    /\ \E r \in VerifierResults : VerifierReturns(c, r)

C7_LoadingResolvedByOwnCall ==
    [][C7_LoadingHasItsCall /\ C7_LoadingHasItsCall' /\ C7_ResolvedByItsCall]_vars

\* a later analysis resolved before an earlier one, after a reset
C7_Witness ==
    /\ currentDocket = NoDocket
    /\ \E i, j \in 1..Len(messages) :
          /\ i < j
          /\ messages[i].status = "loading"
          /\ messages[j].status = "success"

\* C8: a session never has two verifications in flight at once, nor two
\* commits in flight at once.
C8_OneVerificationOneCommit ==
    /\ Cardinality({c \in calls : c.kind = "verify"}) <= 1
    /\ Cardinality({c \in calls : c.kind = "update"}) <= 1

\* C9: an image upload while active_docket is empty invokes no verifier
\* and creates no loading message: it appends exactly one 'search for a
\* docket before uploading' assistant message and leaves active_docket and
\* pending_evidence unchanged; no analysis ever runs without a docket.
C9_UploadRefused ==
    \A f \in Images :
        HandleFileUpload(f) /\ currentDocket = NoDocket
        => /\ calls' = calls
           /\ messages' = Append(messages,
                  [id |-> Len(messages) + 1, role |-> "assistant",
                   content |-> Fixed("searchFirst"), image |-> Null,
                   status |-> NoStatus])
           /\ currentDocket' = currentDocket
           /\ pendingPodImage' = pendingPodImage

C9_AnalysisHasDocket ==
    \A c \in calls : c.kind \in {"reader", "verify"} => c.docket # NoDocket

C9_UploadWithoutDocket ==
    [][C9_UploadRefused /\ C9_AnalysisHasDocket']_vars

C9_Witness ==
    /\ LastMessage.content.tpl = "searchFirst"
    /\ currentDocket = NoDocket
    /\ calls = {}

\* C10: an utterance containing both the substring 'update' (whatever the
\* case) and a DKT-<digits> token is handled as RequestCommit, never as
\* DocketLookup: no Docket Store get is issued and the utterance does not
\* change active_docket.
C10_Precedence ==
    /\ SendStep
    /\ HasUpdateCue(Sent)
    /\ HasDocketToken(Sent)
    => /\ \A c \in Started : c.kind = "update"
       /\ currentDocket' = currentDocket

C10_UpdateBeforeLookup ==
    [][C10_Precedence]_vars

C10_Witness ==
    /\ currentDocket # NoDocket
    /\ \E i \in 1..Len(messages) :
          /\ messages[i].role = "user"
          /\ messages[i].content.tpl = "text"
          /\ HasUpdateCue(messages[i].content.text)
          /\ HasDocketToken(messages[i].content.text)
          /\ docketMatch(messages[i].content.text) # <<>>
          /\ toUpperCase(docketMatch(messages[i].content.text)) # currentDocket.id

\* the message of the log that has the id msgId
MessageOf(msgs, msgId) ==
    msgs[CHOOSE i \in 1..Len(msgs) : msgs[i].id = msgId]

HasMarker(t) == includes(toLowerCase(t), AcceptanceMarker)

\* C11: analyzePOD sets pending_evidence to the submitted image if and only
\* if the verifier returned a verdict text that contains 'pod is good'
\* whatever the case; a verdict without the marker resolves the loading
\* message to success with the verdict text and leaves pending_evidence and
\* active_docket unchanged.
C11_Verdict ==
    \A c \in calls : \A r \in VerifierResults :
        VerifierReturns(c, r)
        => /\ r \notin {Throws, <<>>} /\ HasMarker(r)
              => /\ pendingPodImage' = c.img
                 /\ MessageOf(messages', c.msgId).status = "success"
                 /\ MessageOf(messages', c.msgId).content = Text(r)
           /\ ~(r \notin {Throws, <<>>} /\ HasMarker(r))
              => pendingPodImage' = pendingPodImage
           /\ r \notin {Throws, <<>>} /\ ~HasMarker(r)
              => /\ MessageOf(messages', c.msgId).status = "success"
                 /\ MessageOf(messages', c.msgId).content = Text(r)
                 /\ currentDocket' = currentDocket

C11_EvidenceIffMarker ==
    [][C11_Verdict]_vars

\* a rejected analysis and then an accepted one, whose image is pending
C11_Witness ==
    /\ pendingPodImage \in Images
    /\ \E i, j \in 1..Len(messages) :
          /\ i < j
          /\ messages[i].status = "success"
          /\ messages[i].content = Text(BadVerdict)
          /\ messages[j].status = "success"
          /\ messages[j].content = Text(GoodVerdict)

\* C12: when the verifier call fails or returns no usable text (empty or
\* missing), analyzePOD resolves its loading message to error with the
\* fixed apology, never to success, and leaves active_docket and
\* pending_evidence unchanged; the verifier is not called again.
C12_NoUsableText ==
    \A c \in calls : \A r \in {Throws, <<>>} :
        VerifierReturns(c, r)
        => /\ MessageOf(messages', c.msgId).status = "error"
           /\ MessageOf(messages', c.msgId).content = Fixed("analyzeError")
           /\ currentDocket' = currentDocket
           /\ pendingPodImage' = pendingPodImage
           /\ Started = {}

C12_FailureResolvesToError ==
    [][C12_NoUsableText]_vars

\* C13: a DocketLookup(id) for which the store returns NotFound, or whose
\* call errors, leaves active_docket and pending_evidence as they were (a
\* previously active docket included) and appends exactly one 'not found'
\* message, which lists DKT-1001, DKT-1002 and DKT-1003.
\* the ids a lookup of these runs can ask for, and whether the 'not found'
\* text for each of them names the three sample dockets
C13_LookupIds ==
    {toUpperCase(docketMatch(trim(u))) :
        u \in Utterances \cup UtterancesScoped \cup SampleIds} \ {<<>>}

C13_TextListsSamples ==
    \A d \in C13_LookupIds :
        \A id \in SeedIds : includes(notFoundText(d), id)

C13_Miss ==
    \A c \in calls : \A rejects \in BOOLEAN :
        FetchDocketReturns(c, rejects) /\ (rejects \/ ~c.res.ok)
        => /\ currentDocket' = currentDocket
           /\ pendingPodImage' = pendingPodImage
           /\ dockets' = dockets
           /\ messages' = Append(messages,
                  [id |-> Len(messages) + 1, role |-> "assistant",
                   content |-> Content("notFound", c.reqId, NoDocket),
                   image |-> Null, status |-> NoStatus])
           /\ c.reqId \in C13_LookupIds
           /\ C13_TextListsSamples

C13_LookupMissKeepsState ==
    [][C13_Miss]_vars

\* a lookup missed while another docket was active
C13_Witness ==
    /\ LastMessage.content.tpl = "notFound"
    /\ currentDocket # NoDocket
    /\ LastMessage.content.text # currentDocket.id

\* C14: when a commit from EvidencePending fails at the store (a response
\* that is not OK, or a thrown error), active_docket and pending_evidence
\* are both retained, exactly one 'failed to update' message is appended
\* and no second update call is issued for that RequestCommit.
C14_Failure ==
    \A c \in calls : \A rejects \in BOOLEAN :
        UpdateReturns(c, rejects) /\ (rejects \/ ~c.res.ok)
        => /\ currentDocket' = currentDocket
           /\ pendingPodImage' = pendingPodImage
           /\ messages' = Append(messages,
                  [id |-> Len(messages) + 1, role |-> "assistant",
                   content |-> Fixed("updateFailed"),
                   image |-> Null, status |-> NoStatus])
           /\ Started = {}
           /\ calls' = calls \ {c}

C14_CommitFailureKeepsState ==
    [][C14_Failure]_vars

C14_Witness ==
    /\ LastMessage.content.tpl = "updateFailed"
    /\ currentDocket # NoDocket
    /\ pendingPodImage # Null
    /\ calls = {}

\* C15: the message log is ordered and append-only: a message keeps its
\* position, id, role and image and is never removed; the only change to
\* an existing message is the rewrite of status and content that turns a
\* loading message into success or error, and a message that is success or
\* error, or has no status, is never changed again.
C15_Step ==
    /\ Len(messages') >= Len(messages)
    /\ \A i \in 1..Len(messages) :
          /\ messages'[i].id = messages[i].id
          /\ messages'[i].role = messages[i].role
          /\ messages'[i].image = messages[i].image
          /\ messages'[i] # messages[i]
             => /\ messages[i].status = "loading"
                /\ messages'[i].status \in {"success", "error"}

C15_AppendOnlyLog ==
    [][C15_Step]_vars

\* a loading message resolved where it stands, with a message without
\* status after it and another loading message still open
C15_Witness ==
    \E i, j, k \in 1..Len(messages) :
        /\ i < j
        /\ messages[i].status \in {"success", "error"}
        /\ messages[i].content.tpl # "analyzing"
        /\ messages[j].status = NoStatus
        /\ messages[k].status = "loading"

\* C16: a Freeform utterance (no 'update' cue, no DKT-<digits> token) has
\* no workflow side effects: it is forwarded to the assistant, and whether
\* that call succeeds or fails, active_docket, pending_evidence and the
\* Docket Store are unchanged and exactly one assistant message is
\* appended: the assistant's text on success, the degraded-connectivity
\* message on failure.
C16_Forwarded ==
    /\ SendStep
    /\ ~HasUpdateCue(Sent)
    /\ ~HasDocketToken(Sent)
    => /\ Cardinality(Started) = 1
       /\ \A c \in Started : c.kind = "assistant"
       /\ calls' = calls \cup Started
       /\ Len(messages') = Len(messages) + 1
       /\ currentDocket' = currentDocket
       /\ pendingPodImage' = pendingPodImage
       /\ dockets' = dockets

C16_Answered ==
    \A c \in calls : \A r \in AssistantResults :
        AssistantReturns(c, r)
        => /\ currentDocket' = currentDocket
           /\ pendingPodImage' = pendingPodImage
           /\ dockets' = dockets
           /\ Started = {}
           /\ Len(messages') = Len(messages) + 1
           /\ SubSeq(messages', 1, Len(messages)) = messages
           /\ messages'[Len(messages')].role = "assistant"
           /\ r = Throws
              => messages'[Len(messages')].content = Fixed("assistantError")
           /\ r \notin {Throws, <<>>}
              => messages'[Len(messages')].content = Text(r)

StatusAt(i) == IF i <= Len(messages) THEN messages[i].status ELSE NoStatus

C17_NoneLeftLoading ==
    (\A c \in calls : c.kind # "verify")
    => \A i \in 1..Len(messages) : messages[i].status # "loading"

C17_EveryLoadingResolved ==
    /\ []C17_NoneLeftLoading
    /\ \A i \in 1..MaxMessagesLive :
          StatusAt(i) = "loading" ~> StatusAt(i) \in {"success", "error"}

\* two analyses over, one failed and one answered, and nothing outstanding
C17_Witness ==
    /\ calls = {}
    /\ \E i, j \in 1..Len(messages) :
          /\ messages[i].status = "error"
          /\ messages[j].status = "success"
    /\ \A i \in 1..Len(messages) : messages[i].status # "loading"

\* C18: a positive verdict that arrives after the active docket was reset,
\* or replaced by the lookup of another docket, while the verifier call was
\* outstanding does not set pending_evidence: pending_evidence is set only
\* if at completion active_docket is still the docket the analysis was
\* started with.
C18_StaleVerdict ==
    \A c \in calls : \A r \in VerifierResults :
        /\ VerifierReturns(c, r)
        /\ currentDocket.id # c.docket.id
        => pendingPodImage' = pendingPodImage

C18_StaleVerdictSetsNoEvidence ==
    [][C18_StaleVerdict]_vars

\* the response the server gave to the request c in this step
Answer(c) == (CHOOSE d \in calls' : d.cid = c.cid).res

\* C19: the Docket Store handlers never create or delete a docket and
\* change a record only through update: get(id) changes nothing; update(id,
\* status, verified) on an existing id sets the status and the verified
\* flag of that record and of no other and returns success; update on an
\* unknown id returns NotFound and leaves every record unchanged; the set
\* of docket ids stays the seeded set.
C19_Get ==
    \A c \in calls :
        ServerGet(c)
        => /\ dockets' = dockets
           /\ Answer(c) = IF c.reqId \in SeedIds
                          THEN Response(TRUE, dockets[c.reqId])
                          ELSE NoResponse

C19_Update ==
    \A c \in calls :
        ServerUpdate(c)
        => IF c.reqId \in SeedIds
           THEN /\ dockets'[c.reqId].status = c.body.status
                /\ dockets'[c.reqId].pod_verified =
                       (IF c.body.pod_verified THEN 1 ELSE 0)
                /\ dockets'[c.reqId].id = c.reqId
                /\ dockets'[c.reqId].customer_name =
                       dockets[c.reqId].customer_name
                /\ dockets'[c.reqId].delivery_address =
                       dockets[c.reqId].delivery_address
                /\ \A i \in SeedIds \ {c.reqId} : dockets'[i] = dockets[i]
                /\ Answer(c).ok
           ELSE /\ dockets' = dockets
                /\ ~Answer(c).ok

C19_OnlyUpdateWrites ==
    dockets' # dockets => \E c \in calls : ServerUpdate(c)

C19_StoreOnlyUpdates ==
    [][/\ C19_Get
       /\ C19_Update
       /\ C19_OnlyUpdateWrites
       /\ DOMAIN dockets' = SeedIds]_vars

\* an update of an unknown id was answered NotFound after an update of
\* DKT-1001 had been recorded
C19_Witness ==
    /\ dockets[DKT1001].status = "Returned"
    /\ dockets[DKT1001].pod_verified = 1
    /\ \E c \in calls :
          /\ c.kind = "update"
          /\ c.phase = "resp"
          /\ c.reqId \notin SeedIds
          /\ ~c.res.ok

\* C20: clicking a suggested-action button (a sample docket id, or Confirm
\* Update) is one event fully handled as a submission of the button's own
\* text: the click by itself, with an empty input box, appends the user
\* message with the button's label and runs the DocketLookup or the
\* RequestCommit.
C20_SampleClick ==
    \A id \in SampleIds :
        ClickSampleDocket(id, input) /\ trim(input) = <<>>
        => /\ SendStep
           /\ Sent = id
           /\ \E c \in Started : c.kind = "fetch" /\ c.reqId = id

C20_ConfirmClick ==
    ClickConfirmUpdate(input) /\ trim(input) = <<>>
    => /\ SendStep
       /\ Sent = PleaseUpdate
       /\ \E c \in Started : c.kind = "update"

C20_ClickSubmitsLabel ==
    [][C20_SampleClick /\ C20_ConfirmClick]_vars

\* C21: the busy flag isTyping is true in every state in which at least
\* one asynchronous operation of the session (verifier call, docket fetch,
\* store update or assistant call) is outstanding, and false once none is.
C21_BusyWhileOutstanding ==
    isTyping <=> \E c \in calls :
                    c.kind \in {"verify", "fetch", "update", "assistant"}

====
